---- MODULE Spec2Model ----
(***************************************************************************)
(* Model of lyra's repository snapshot-and-undo subsystem                  *)
(* (src/src/lyra/history.py), of the undo commands                         *)
(* (src/src/lyra/commands/undo_cmd.py), of the apply flow of optimize_repo *)
(* (src/src/lyra/optimize.py) and of the sandbox preparer and its guard    *)
(* module (src/src/lyra/safe_profile.py).                                  *)
(*                                                                         *)
(* The repository is a partial map from relative path to file bytes; the   *)
(* per-repository history root is a map from run id to the files of one    *)
(* history directory.  I/O errors the code catches or lets escape are      *)
(* inputs of the operations (sets of paths on which the call raises        *)
(* OSError).  Each subsystem has its own specification; the variables of   *)
(* the others stay at their initial values in it.                          *)
(***************************************************************************)
EXTENDS Integers, Sequences, FiniteSets, TLC

(***************************************************************************)
(* Bounds of the model.                                                    *)
(***************************************************************************)
\* seconds the wall clock can show; run ids are 1..MaxClock
MaxClock == 2
\* writes and deletions made by the mutator or by anybody else
MaxEdits == 2
\* calls of create_history_entry
MaxCreates == 2
\* scaled byte ceiling passed as max_backup_bytes
MaxBackupBytes == 1
\* calls of undo_history, directly or through a command
MaxUndos == 2
\* I/O errors (OSError on one path in one call) in a run with I/O errors
MaxFaults == 1
\* calls of create_history_entry in a run with I/O errors
MaxCreatesIO == 1
\* calls of undo_history in a run with I/O errors
MaxUndosIO == 1
\* undo commands in a run of the command line
MaxCmds == 1
\* calls of step and save functions the sandboxed script makes
MaxCalls == 3
\* run directories holding a copy of the repository
MaxRuns == 2
\* edits of the repository between calls of prepare_isolated_run
MaxEditsIso == 1
\* bytes a write_bytes that fails after the open can have written
MaxWritten == 1

(***************************************************************************)
(* Paths and bytes.                                                        *)
(***************************************************************************)
\* relative paths, in the order Python's sorted() gives them
PathOrder == <<".git/config", "model.bin", "train.py">>

Paths == {PathOrder[i] : i \in 1..Len(PathOrder)}

\* the paths the mutator writes: those outside the excluded directories
EditedPaths == Paths \ {".git/config"}

\* a file below an excluded directory name that is not the first segment
NestedPath == "pkg/__pycache__/m.pyc"

\* the paths of the trees build_manifest is called on
ScanPaths == Paths \cup {NestedPath}

\* Path(rel).parts
Parts == [p \in ScanPaths |->
             CASE p = ".git/config" -> <<".git", "config">>
               [] p = NestedPath -> <<"pkg", "__pycache__", "m.pyc">>
               [] OTHER -> <<p>>]

\* Path(rel).parts[0]
FirstPart == [p \in ScanPaths |-> Parts[p][1]]

\* Path(rel).suffix.lower()
Suffix == [p \in ScanPaths |->
              CASE p = "train.py" -> ".py"
                [] p = "model.bin" -> ".bin"
                [] p = NestedPath -> ".pyc"
                [] OTHER -> ""]

\* file contents: byte strings; byte 0 is the null byte
Contents == {<<1>>, <<2>>, <<0>>, <<1, 1>>}

DEFAULT_BACKUP_EXTENSIONS ==
    {".py", ".pyw", ".sh", ".md", ".txt", ".toml", ".yaml", ".yml", ".json"}

ExcludedDirs == {".git", ".venv", "venv", "build", "dist", ".lyra", "__pycache__"}

\* an I/O error <<kind, path, n>>: the kind of call that raises OSError and
\* the path it is on.  copy and write: write_bytes raises before its
\* destination is opened; part: write_bytes opens (and truncates) its
\* destination and can write n bytes to it, so it raises with n bytes
\* written when it has more than n to write.  n is 0 for the other kinds.
FaultKinds == {"read", "sniff", "copy", "unlink", "write", "part"}

\* the paths on which calls of one kind fail, for a set F of I/O errors
Failing(F, kind) == {p \in Paths : <<kind, p, 0>> \in F}

\* the byte counts the errors of F allow write_bytes on p
PartFaults(F, p) == {n \in 0..MaxWritten : <<"part", p, n>> \in F}

\* the bytes write_bytes can write to p before it raises: the least of them
Room(F, p) ==
    CHOOSE n \in PartFaults(F, p) : \A m \in PartFaults(F, p) : n <= m

\* the files of f (path -> bytes to write) whose write_bytes raises after
\* the open, each with the number of bytes that reach the destination
Short(F, f) ==
    [p \in {q \in DOMAIN f : /\ PartFaults(F, q) # {}
                              /\ Len(f[q]) > Room(F, q)} |-> Room(F, p)]

\* the I/O errors of the kinds
FaultsOf(kinds) ==
    {x \in kinds \X Paths \X (0..MaxWritten) : x[1] = "part" \/ x[3] = 0}

\* the I/O errors one call can meet when n more errors can happen
RECURSIVE FaultSets(_, _)
FaultSets(kinds, n) ==
    IF n <= 0 THEN {{}}
    ELSE LET fewer == FaultSets(kinds, n - 1)
         IN fewer \cup {F \cup {x} : F \in fewer, x \in FaultsOf(kinds)}

RunIds == 1..MaxClock

(***************************************************************************)
(* Partial maps (file trees, manifests).                                   *)
(***************************************************************************)
EmptyMap == [p \in {} |-> 0]

\* Path.write_bytes
write_bytes(f, p, c) == [q \in (DOMAIN f) \cup {p} |-> IF q = p THEN c ELSE f[q]]

\* Path.unlink
unlink(f, p) == [q \in (DOMAIN f) \ {p} |-> f[q]]

\* sorted(S) for a set of relative paths
Sorted(S) == SelectSeq(PathOrder, LAMBDA p : p \in S)

Range(s) == {s[i] : i \in 1..Len(s)}

(***************************************************************************)
(* Content manifest builder.                                               *)
(***************************************************************************)
\* hashlib.sha256 over the whole byte stream: an injective digest
_sha256(c) == <<"sha256", c>>

\* the number of leading bytes _looks_binary looks at
SniffBytes == 4096

\* path.read_bytes()[:4096]
Sniffed(c) == SubSeq(c, 1, IF Len(c) < SniffBytes THEN Len(c) ELSE SniffBytes)

\* b"\x00" in data
HasNull(c) == \E i \in 1..Len(c) : c[i] = 0

\* _looks_binary: unreadable files count as binary, readable ones are
\* binary when their first 4096 bytes hold a null byte
_looks_binary(f, p, unreadable) ==
    IF p \in unreadable THEN TRUE ELSE HasNull(Sniffed(f[p]))

\* what write_bytes(c) leaves of a destination when it raises after the
\* open with n bytes written: the first n bytes of c
Written(c, n) == SubSeq(c, 1, IF n < Len(c) THEN n ELSE Len(c))

\* is_excluded looking at every segment of the path
is_excluded_anywhere(p) ==
    \E i \in 1..Len(Parts[p]) : Parts[p][i] \in ExcludedDirs

\* rel.parts and rel.parts[0] in excluded
is_excluded(p) == Parts[p] # <<>> /\ Parts[p][1] \in ExcludedDirs

\* _iter_files: every file whose first path segment is not excluded
_iter_files(f) == {p \in DOMAIN f : ~is_excluded(p)}

ManifestEntry(p, c) == [rel_path |-> p, size |-> Len(c), sha256 |-> _sha256(c)]

\* build_manifest: files that raise OSError are left out
build_manifest(f, unreadable) ==
    [p \in _iter_files(f) \ unreadable |-> ManifestEntry(p, f[p])]

\* the orders in which Path.rglob can yield the files of a tree
Orders(f) ==
    {o \in [1..Cardinality(DOMAIN f) -> DOMAIN f] :
        \A i, j \in DOMAIN o : i # j => o[i] # o[j]}

RECURSIVE build_manifest_break(_, _, _)
\* build_manifest_walk leaving the loop at the first excluded file
build_manifest_break(f, order, unreadable) ==
    IF order = <<>> THEN EmptyMap
    ELSE LET p == Head(order)
             rest == build_manifest_break(f, Tail(order), unreadable)
         IN IF FirstPart[p] \in ExcludedDirs THEN EmptyMap
            ELSE IF p \in unreadable THEN rest
            ELSE [q \in (DOMAIN rest) \cup {p} |->
                    IF q = p THEN ManifestEntry(p, f[p]) ELSE rest[q]]

RECURSIVE build_manifest_walk(_, _, _)
\* build_manifest as the loop runs it: the files in the order of the
\* traversal, excluded and unreadable ones passed over, out[rel] assigned
build_manifest_walk(f, order, unreadable) ==
    IF order = <<>> THEN EmptyMap
    ELSE LET p == Head(order)
             rest == build_manifest_walk(f, Tail(order), unreadable)
         IN IF is_excluded(p) THEN rest
            ELSE IF p \in unreadable THEN rest
            ELSE [q \in (DOMAIN rest) \cup {p} |->
                    IF q = p THEN ManifestEntry(p, f[p]) ELSE rest[q]]

(***************************************************************************)
(* State.                                                                  *)
(***************************************************************************)
VARIABLES
    fs,        \* the repository outside .lyra and outside the run directories
               \* of prepare_isolated_run, which are in runs: path -> bytes
    clock,     \* the last reading of datetime.utcnow(), in whole seconds
    hist,      \* .lyra/history: run id -> the files of that directory
    last,      \* the last step: the call, its arguments and how it ended
               \* (again: a finalize right after a finalize of the same entry;
               \* prior: the undo right before an undo; clean: the undo found the
               \* repository as the entry's finalize recorded it)
    fsPre,     \* the repository when the last call started
    histPre,   \* the history root when the last call started
    snap,      \* per run id: the repository at its last create
    edits,     \* number of edits so far
    creates,   \* number of create_history_entry calls so far
    undos,     \* number of undo_history calls so far
    faults,    \* number of I/O errors so far
    opt,       \* the optimize_repo call in progress: its position and locals
    runs,      \* the run directories, those under the repository root
               \* included: runs root -> timestamp -> run dir
    proc       \* a sandboxed Python process that loaded the guard module

vars == <<fs, clock, hist, last, fsPre, histPre, snap, edits, creates, undos, faults,
          opt, runs, proc>>

NoChanges == [run_id |-> 0, added |-> <<>>, deleted |-> <<>>, modified |-> <<>>]

\* a history directory that does not exist
NoDir == [exists |-> FALSE,
          has_before |-> FALSE, before |-> EmptyMap,
          has_after |-> FALSE, after |-> EmptyMap,
          has_changes |-> FALSE,
          changes |-> NoChanges,
          has_meta |-> FALSE,
          meta |-> [run_id |-> 0, backed_up_files |-> {}, skipped_files |-> {}],
          backup |-> EmptyMap]

\* fs0: the repository at the last create on the run id; finalized: the
\* entry of that create was finalized
NoSnap == [created |-> FALSE, fs0 |-> EmptyMap, finalized |-> FALSE]

\* a run directory that does not exist; repo is the files at the root of
\* its copy, nested says that the copy holds copies of run directories,
\* returned counts the calls of prepare_isolated_run that handed this
\* directory out
NoRun == [exists |-> FALSE, has_repo |-> FALSE, repo |-> EmptyMap,
          nested |-> FALSE, sitecustomize |-> FALSE, returned |-> 0]

\* runs_root as the caller gives it: None, a directory of the repository
\* that no ignored name leads to, or a directory that is not under the
\* repository root
RunsRootArgs == {"None", "<repo>/runs", "/elsewhere/runs"}

\* repo / ".lyra" / "runs", a directory under the repository root
DefaultRunsRoot == "<repo>/.lyra/runs"

\* the directories run directories are made in
RunsRoots == {DefaultRunsRoot, "<repo>/runs", "/elsewhere/runs"}

\* the runs roots under the repository root
InRepoRoots == {DefaultRunsRoot, "<repo>/runs"}

\* the runs roots under the repository root that copytree of the repository
\* walks into: no name of IgnoredNames is on their path
WalkedRoots == {"<repo>/runs"}

\* no run directory under any runs root
NoRuns == [r \in RunsRoots |-> [t \in RunIds |-> NoRun]]

\* the call before the last one was not an undo
NoPrior == [op |-> "none", run_id |-> 0, force |-> FALSE, outcome |-> "none",
            clean |-> FALSE]

NoCall == [op |-> "none", run_id |-> 0, force |-> FALSE, outcome |-> "none",
           divergent |-> <<>>, ret |-> "none", changes |-> NoChanges,
           exit |-> 0, printed |-> <<>>, again |-> FALSE,
           io |-> {}, order |-> <<>>, manifest |-> EmptyMap,
           prev |-> [order |-> <<>>, manifest |-> EmptyMap],
           script |-> "", isolated_script |-> <<>>, guard_before |-> FALSE,
           runs_root |-> "", runs_root_arg |-> "", runs_before |-> NoRuns,
           clean |-> FALSE, prior |-> NoPrior]

\* no optimize_repo call in progress
NoOpt == [pc |-> "idle", apply |-> FALSE, plan |-> FALSE, yes |-> FALSE,
          prompts |-> <<>>, profiles |-> 0, creates_at_call |-> 0,
          outcome |-> "none"]

\* no sandboxed process
NoProc == [phase |-> "none",            \* none, running, unwinding (an
                                       \* exception is on its way out
                                       \* through finally blocks), exited,
                                       \* finished
           env |-> [safe |-> "unset", max_steps |-> "unset",
                    disable_saving |-> "unset"],
           torch |-> FALSE,            \* import torch succeeds
           LYRA_SAFE |-> FALSE,
           LYRA_MAX_STEPS |-> 0,
           LYRA_DISABLE_SAVING |-> FALSE,
           step_patched |-> FALSE,     \* Optimizer.step is the wrapper
           save_patched |-> FALSE,     \* torch.save is the no-op
           jit_patched |-> FALSE,      \* torch.jit.save is the no-op
           steps |-> 0,                \* _counter["steps"]
           _warned_save |-> FALSE,
           stderr |-> <<>>,            \* the lines the guard printed
           exit |-> -1,                \* exit status, -1 while running
           by_guard |-> FALSE,         \* the guard module ended the process
           pending |-> "none",         \* the exception on its way out
           exits |-> 0,                \* SystemExit(0) raised by the wrapper
           step_calls |-> 0,           \* calls of Optimizer.step by the script
           save_calls |-> 0,           \* calls of torch.save and torch.jit.save
           original_steps |-> <<0, 0, 0>>, \* executions of a step function, per optimizer
           original_saves |-> 0,       \* executions of the original save functions
           first_save |-> "none"]      \* the save function called first

\* the repositories a run starts from
InitRepos ==
    {[p \in Paths |-> IF p = "model.bin" THEN <<0>> ELSE <<1>>],
     [p \in Paths \ {"model.bin"} |-> <<1>>]}

Init ==
    /\ fs \in InitRepos
    /\ clock = 1
    /\ hist = [k \in RunIds |-> NoDir]
    /\ last = NoCall
    /\ fsPre = fs
    /\ histPre = [k \in RunIds |-> NoDir]
    /\ snap = [k \in RunIds |-> NoSnap]
    /\ edits = 0
    /\ creates = 0
    /\ undos = 0
    /\ faults = 0
    /\ opt = NoOpt
    /\ runs = NoRuns
    /\ proc = NoProc

(***************************************************************************)
(* Environment: the mutator (or anybody) edits the tree.                    *)
(***************************************************************************)
EditWrite(p, c) ==
    /\ edits < MaxEdits
    /\ IF p \in DOMAIN fs THEN fs[p] # c ELSE TRUE
    /\ fs' = write_bytes(fs, p, c)
    /\ edits' = edits + 1
    /\ last' = [NoCall EXCEPT !.op = "edit"]
    /\ fsPre' = fs'
    /\ histPre' = hist
    /\ UNCHANGED <<clock, hist, snap, creates, undos, faults, runs, proc>>

EditDelete(p) ==
    /\ edits < MaxEdits
    /\ p \in DOMAIN fs
    /\ fs' = unlink(fs, p)
    /\ edits' = edits + 1
    /\ last' = [NoCall EXCEPT !.op = "edit"]
    /\ fsPre' = fs'
    /\ histPre' = hist
    /\ UNCHANGED <<clock, hist, snap, creates, undos, faults, runs, proc>>

\* a record of a history entry is lost (pruned or removed by hand)
LoseRecord(k, name) ==
    /\ faults < MaxFaults
    /\ hist[k].exists
    /\ \/ name = "before_manifest.json" /\ hist[k].has_before
          /\ hist' = [hist EXCEPT ![k] = [@ EXCEPT !.has_before = FALSE,
                                                    !.before = EmptyMap]]
       \/ name = "after_manifest.json" /\ hist[k].has_after
          /\ hist' = [hist EXCEPT ![k] = [@ EXCEPT !.has_after = FALSE,
                                                    !.after = EmptyMap]]
       \/ name = "changes.json" /\ hist[k].has_changes
          /\ hist' = [hist EXCEPT ![k] = [@ EXCEPT !.has_changes = FALSE,
                                                    !.changes = NoChanges]]
    /\ faults' = faults + 1
    /\ last' = [NoCall EXCEPT !.op = "lose_record"]
    /\ fsPre' = fs
    /\ histPre' = hist'
    /\ UNCHANGED <<fs, clock, snap, edits, creates, undos, opt, runs, proc>>

(***************************************************************************)
(* build_manifest called on the repository, the traversal in some order.   *)
(***************************************************************************)
build_manifest_call(order, unreadable) ==
    /\ last' = [NoCall EXCEPT
                  !.op = "build_manifest",
                  !.outcome = "returned",
                  !.order = order,
                  !.io = {<<"read", p, 0>> : p \in unreadable},
                  !.manifest = build_manifest_walk(fs, order, unreadable),
                  !.again = (last.op = "build_manifest"),
                  !.prev = [order |-> last.order, manifest |-> last.manifest]]
    /\ fsPre' = fs
    /\ histPre' = hist
    /\ UNCHANGED <<fs, clock, hist, snap, edits, creates, undos, faults,
                   opt, runs, proc>>

(***************************************************************************)
(* create_history_entry                                                    *)
(***************************************************************************)
\* BackedUp with the size compared by >= instead of >
BackedUpBelow(f, before, exts, max_backup_bytes, sniffFail, copyFail) ==
    {rel \in DOMAIN before :
        /\ Suffix[rel] \in exts
        /\ ~(before[rel].size >= max_backup_bytes)
        /\ ~_looks_binary(f, rel, sniffFail)
        /\ rel \notin copyFail}

\* the files the backup loop copies: allowed suffix, size not above the
\* ceiling, no null byte, and the copy itself did not raise
BackedUp(f, before, exts, max_backup_bytes, sniffFail, copyFail) ==
    {rel \in DOMAIN before :
        /\ Suffix[rel] \in exts
        /\ ~(before[rel].size > max_backup_bytes)
        /\ ~_looks_binary(f, rel, sniffFail)
        /\ rel \notin copyFail}

\* the files the backup loop appends to skipped
Skipped(f, before, exts, max_backup_bytes, sniffFail, copyFail) ==
    {rel \in DOMAIN before :
        /\ Suffix[rel] \in exts
        /\ \/ before[rel].size > max_backup_bytes
           \/ _looks_binary(f, rel, sniffFail)
           \/ rel \in copyFail}

\* BackupAfterCopy with no copy written
BackupAfterCopyNone(old, f, copied, partial) == old

\* before/<rel> after the backup loop: copies land over whatever is there,
\* and a copy that raised after dest was opened leaves what it had written
\* (partial: path -> bytes written)
BackupAfterCopy(old, f, copied, partial) ==
    [rel \in (DOMAIN old) \cup copied \cup (DOMAIN partial) |->
        IF rel \in copied THEN f[rel]
        ELSE IF rel \in DOMAIN partial THEN Written(f[rel], partial[rel])
        ELSE old[rel]]

\* now is what datetime.utcnow() shows, in whole seconds: the clock never
\* runs backwards, and any time can have passed since the last reading
create_history_entry(now, F) ==
    /\ creates < MaxCreates
    /\ now >= clock
    /\ clock' = now
    /\ LET run_id == now
           unreadable == Failing(F, "read")
           sniffFail == Failing(F, "sniff")
           short == Short(F, fs)
           copyFail == Failing(F, "copy") \cup (DOMAIN short)
           exts == DEFAULT_BACKUP_EXTENSIONS
           before_manifest == build_manifest(fs, unreadable)
           \* the files whose dest.write_bytes opens its destination
           opened == BackedUp(fs, before_manifest, exts, MaxBackupBytes,
                              sniffFail, Failing(F, "copy"))
           partial == [p \in opened \cap (DOMAIN short) |-> short[p]]
           backed_up == BackedUp(fs, before_manifest, exts, MaxBackupBytes,
                                 sniffFail, copyFail)
           skipped == Skipped(fs, before_manifest, exts, MaxBackupBytes,
                              sniffFail, copyFail)
       IN /\ hist' = [hist EXCEPT ![run_id] =
                        [@ EXCEPT !.exists = TRUE,
                                  !.has_before = TRUE,
                                  !.before = before_manifest,
                                  !.backup = BackupAfterCopy(@, fs, backed_up,
                                                             partial),
                                  !.has_meta = TRUE,
                                  !.meta = [run_id |-> run_id,
                                            backed_up_files |-> backed_up,
                                            skipped_files |-> skipped]]]
          /\ snap' = [snap EXCEPT ![run_id] =
                        [created |-> TRUE, fs0 |-> fs, finalized |-> FALSE]]
          /\ last' = [NoCall EXCEPT !.op = "create_history_entry",
                                    !.run_id = run_id,
                                    !.outcome = "returned",
                                    !.ret = "HistoryEntry",
                                    !.io = F]
    /\ creates' = creates + 1
    /\ faults' = faults + Cardinality(F)
    /\ fsPre' = fs
    /\ histPre' = hist
    /\ UNCHANGED <<fs, edits, undos, runs, proc>>

(***************************************************************************)
(* finalize_history_entry                                                  *)
(***************************************************************************)
\* ComputeChanges with the sizes compared instead of the digests
ComputeChangesBySize(run_id, before, after_manifest) ==
    LET before_keys == DOMAIN before
        after_keys == DOMAIN after_manifest
    IN [run_id |-> run_id,
        added |-> Sorted(after_keys \ before_keys),
        deleted |-> Sorted(before_keys \ after_keys),
        modified |-> Sorted({k \in before_keys \cap after_keys :
                               before[k].size # after_manifest[k].size})]

\* the changes record computed from the persisted BEFORE manifest and a
\* fresh AFTER manifest
ComputeChanges(run_id, before, after_manifest) ==
    LET before_keys == DOMAIN before
        after_keys == DOMAIN after_manifest
    IN [run_id |-> run_id,
        added |-> Sorted(after_keys \ before_keys),
        deleted |-> Sorted(before_keys \ after_keys),
        modified |-> Sorted({k \in before_keys \cap after_keys :
                               before[k].sha256 # after_manifest[k].sha256})]

\* _load_before taking the newest manifest of the entry
_load_latest(dir) == IF dir.has_after THEN dir.after ELSE dir.before

\* the BEFORE manifest finalize diffs against: the one read back from
\* before_manifest.json
_load_before(dir) == dir.before

\* entry is a HistoryEntry returned by an earlier create_history_entry
finalize_history_entry(entry, F) ==
    /\ hist[entry].exists
    /\ IF ~hist[entry].has_before
       THEN \* read_text of the BEFORE manifest raises
            /\ F = {}
            /\ hist' = hist
            /\ snap' = snap
            /\ last' = [NoCall EXCEPT !.op = "finalize_history_entry",
                                      !.run_id = entry,
                                      !.outcome = "FileNotFoundError"]
       ELSE LET before == _load_before(hist[entry])
                unreadable == Failing(F, "read")
                after_manifest == build_manifest(fs, unreadable)
                changes == ComputeChanges(entry, before, after_manifest)
            IN /\ hist' = [hist EXCEPT ![entry] =
                             [@ EXCEPT !.has_after = TRUE,
                                       !.after = after_manifest,
                                       !.has_changes = TRUE,
                                       !.changes = changes]]
               /\ snap' = [snap EXCEPT ![entry] =
                             [@ EXCEPT !.finalized = TRUE]]
               /\ last' = [NoCall EXCEPT !.op = "finalize_history_entry",
                                         !.run_id = entry,
                                         !.outcome = "returned",
                                         !.ret = "changes",
                                         !.changes = changes,
                                         !.again =
                                             /\ last.op = "finalize_history_entry"
                                             /\ last.run_id = entry
                                             /\ last.outcome = "returned"]
    /\ faults' = faults + Cardinality(F)
    /\ fsPre' = fs
    /\ histPre' = hist
    /\ UNCHANGED <<fs, clock, edits, creates, undos, runs, proc>>

(***************************************************************************)
(* undo_history                                                            *)
(***************************************************************************)
\* Divergent over the added paths as well
DivergentWithAdded(f, changes, after, unreadable) ==
    SelectSeq(changes.modified \o changes.deleted \o changes.added,
              LAMBDA rel : /\ rel \in DOMAIN f
                           /\ rel \notin unreadable
                           /\ rel \in DOMAIN after
                           /\ _sha256(f[rel]) # after[rel].sha256)

\* Divergent with the sizes compared instead of the digests
DivergentBySize(f, changes, after, unreadable) ==
    SelectSeq(changes.modified \o changes.deleted,
              LAMBDA rel : /\ rel \in DOMAIN f
                           /\ rel \notin unreadable
                           /\ rel \in DOMAIN after
                           /\ Len(f[rel]) # after[rel].size)

\* the divergence list: changed paths that exist, can be hashed, have an
\* AFTER hash and no longer match it
Divergent(f, changes, after, unreadable) ==
    SelectSeq(changes.modified \o changes.deleted,
              LAMBDA rel : /\ rel \in DOMAIN f
                           /\ rel \notin unreadable
                           /\ rel \in DOMAIN after
                           /\ _sha256(f[rel]) # after[rel].sha256)

\* RemoveAdded unlinking nothing
RemoveAddedNone(f, rels, unlinkFail) == f

\* the loop over changes["added"]: unlink what exists, swallow OSError
RECURSIVE RemoveAdded(_, _, _)
RemoveAdded(f, rels, unlinkFail) ==
    IF rels = <<>> THEN f
    ELSE LET rel == Head(rels)
         IN IF rel \in DOMAIN f /\ rel \notin unlinkFail
            THEN RemoveAdded(unlink(f, rel), Tail(rels), unlinkFail)
            ELSE RemoveAdded(f, Tail(rels), unlinkFail)

\* RestoreBackups with the test for the backup copy inverted
RestoreBackupsInverted(f, rels, backup, writeFail) ==
    [fs |-> f,
     raised |-> \E rel \in Range(rels) :
                   rel \notin DOMAIN backup /\ rel \in writeFail.closed]

\* RestoreBackups copying every backup of the entry, changed or not
RestoreEveryBackup(f, rels, backup, writeFail) ==
    [fs |-> [p \in (DOMAIN f) \cup (DOMAIN backup) |->
                IF p \in DOMAIN backup THEN backup[p] ELSE f[p]],
     raised |-> FALSE]

\* the loop over modified + deleted: copy the backup over the live file; an
\* OSError of mkdir or write_bytes escapes and ends the loop.  writeFail
\* gives the paths whose write raises before dst is opened (closed) and
\* those whose write raises after the open, with the bytes written (part)
RECURSIVE RestoreBackups(_, _, _, _)
RestoreBackups(f, rels, backup, writeFail) ==
    IF rels = <<>> THEN [fs |-> f, raised |-> FALSE]
    ELSE LET rel == Head(rels)
         IN IF rel \notin DOMAIN backup
            THEN RestoreBackups(f, Tail(rels), backup, writeFail)
            ELSE IF rel \in writeFail.closed
                 THEN [fs |-> f, raised |-> TRUE]
            ELSE IF rel \in DOMAIN writeFail.part
                 THEN [fs |-> write_bytes(f, rel, Written(backup[rel],
                                                          writeFail.part[rel])),
                       raised |-> TRUE]
                 ELSE RestoreBackups(write_bytes(f, rel, backup[rel]),
                                     Tail(rels), backup, writeFail)

\* Incomplete looking at the changes record only
IncompleteChangesOnly(dir) == ~dir.has_changes

\* the entry lacks one of the three records undo needs
Incomplete(dir) == ~dir.has_changes \/ ~dir.has_after \/ ~dir.has_before

\* Refused without the force flag
RefusedAlways(divergent, force) == divergent # <<>>

\* undo refuses: something diverged and the caller did not force
Refused(divergent, force) == divergent # <<>> /\ ~force

\* undo_history(repo, run_id, force): the repository it leaves, how it ends
\* and what it returns
undo_history_call(f, h, run_id, force, F) ==
    LET dir == h[run_id]
        unreadable == Failing(F, "read")
        unlinkFail == Failing(F, "unlink")
        writeFail == [closed |-> Failing(F, "write"),
                      part |-> Short(F, dir.backup)]
        divergent == Divergent(f, dir.changes, dir.after, unreadable)
        removed == RemoveAdded(f, dir.changes.added, unlinkFail)
        restored == RestoreBackups(removed,
                                   dir.changes.modified \o dir.changes.deleted,
                                   dir.backup, writeFail)
    IN IF Incomplete(dir)
       THEN [fs |-> f, outcome |-> "FileNotFoundError", divergent |-> <<>>,
             ret |-> "none"]
       ELSE IF Refused(divergent, force)
       THEN [fs |-> f, outcome |-> "RuntimeError", divergent |-> divergent,
             ret |-> "none"]
       ELSE IF restored.raised
       THEN [fs |-> restored.fs, outcome |-> "OSError", divergent |-> <<>>,
             ret |-> "none"]
       ELSE [fs |-> restored.fs, outcome |-> "returned", divergent |-> <<>>,
             ret |-> "None"]

\* tree f is as the entry's finalize recorded it
AtAfterState(f, dir) ==
    ~Incomplete(dir) /\ build_manifest(f, {}) = dir.after

undo_history(run_id, force, F) ==
    /\ undos < MaxUndos
    /\ LET r == undo_history_call(fs, hist, run_id, force, F)
       IN /\ fs' = r.fs
          /\ last' = [NoCall EXCEPT !.op = "undo_history",
                                    !.run_id = run_id,
                                    !.force = force,
                                    !.outcome = r.outcome,
                                    !.divergent = r.divergent,
                                    !.ret = r.ret,
                                    !.clean = AtAfterState(fs, hist[run_id]),
                                    !.prior =
                                        IF last.op = "undo_history"
                                        THEN [op |-> last.op,
                                              run_id |-> last.run_id,
                                              force |-> last.force,
                                              outcome |-> last.outcome,
                                              clean |-> last.clean]
                                        ELSE NoPrior]
    /\ undos' = undos + 1
    /\ faults' = faults + Cardinality(F)
    /\ fsPre' = fs
    /\ histPre' = hist
    /\ UNCHANGED <<clock, hist, snap, edits, creates, opt, runs, proc>>

(***************************************************************************)
(* The undo commands.                                                      *)
(***************************************************************************)
\* what cmd_undo_apply / cmd_undo_last do with the result of undo_history:
\* RuntimeError is reported with exit code 2, any other exception escapes,
\* and after a normal return the summary is subscripted
CommandResult(r) ==
    IF r.outcome = "RuntimeError"
    THEN [outcome |-> "returned", exit |-> 2, printed |-> <<"Error">>]
    ELSE IF r.outcome # "returned"
    THEN [outcome |-> r.outcome, exit |-> -1, printed |-> <<>>]
    ELSE IF r.ret = "None"
    THEN [outcome |-> "TypeError", exit |-> -1, printed |-> <<"Reverted snapshot">>]
    ELSE [outcome |-> "returned", exit |-> 0,
          printed |-> <<"Reverted snapshot", "Restored | Removed | Skipped">>]

cmd_undo_apply(run_id, force, F) ==
    /\ undos < MaxUndos
    /\ LET r == undo_history_call(fs, hist, run_id, force, F)
           c == CommandResult(r)
       IN /\ fs' = r.fs
          /\ last' = [NoCall EXCEPT !.op = "cmd_undo_apply",
                                    !.run_id = run_id,
                                    !.force = force,
                                    !.outcome = c.outcome,
                                    !.divergent = r.divergent,
                                    !.ret = r.ret,
                                    !.exit = c.exit,
                                    !.printed = c.printed]
    /\ undos' = undos + 1
    /\ faults' = faults + Cardinality(F)
    /\ fsPre' = fs
    /\ histPre' = hist
    /\ UNCHANGED <<clock, hist, snap, edits, creates, opt, runs, proc>>

\* list_history: the meta records, newest run id first
list_history(h) ==
    LET ids == {k \in RunIds : h[k].exists /\ h[k].has_meta}
        RECURSIVE Desc(_)
        Desc(S) == IF S = {} THEN <<>>
                   ELSE LET m == CHOOSE k \in S : \A j \in S : j <= k
                        IN <<h[m].meta>> \o Desc(S \ {m})
    IN Desc(ids)

cmd_undo_last(force, F) ==
    /\ undos < MaxUndos
    /\ LET items == list_history(hist)
       IN IF items = <<>>
          THEN /\ F = {}
               /\ fs' = fs
               /\ last' = [NoCall EXCEPT !.op = "cmd_undo_last",
                                         !.force = force,
                                         !.outcome = "returned",
                                         !.exit = 2,
                                         !.printed = <<"No history entries found.">>]
          ELSE LET run_id == items[1].run_id
                   r == undo_history_call(fs, hist, run_id, force, F)
                   c == CommandResult(r)
               IN /\ fs' = r.fs
                  /\ last' = [NoCall EXCEPT !.op = "cmd_undo_last",
                                            !.run_id = run_id,
                                            !.force = force,
                                            !.outcome = c.outcome,
                                            !.divergent = r.divergent,
                                            !.ret = r.ret,
                                            !.exit = c.exit,
                                            !.printed = c.printed]
    /\ undos' = undos + 1
    /\ faults' = faults + Cardinality(F)
    /\ fsPre' = fs
    /\ histPre' = hist
    /\ UNCHANGED <<clock, hist, snap, edits, creates, opt, runs, proc>>

(***************************************************************************)
(* Specification.                                                          *)
(***************************************************************************)
CreateFaults ==
    FaultSets({"read", "sniff", "copy", "part"}, MaxFaults - faults)

ScanFaults == FaultSets({"read"}, MaxFaults - faults)

UndoFaults ==
    FaultSets({"read", "unlink", "write", "part"}, MaxFaults - faults)

\* edits by whoever works on the repository
Env ==
    \/ \E p \in EditedPaths, c \in Contents : EditWrite(p, c) /\ UNCHANGED opt
    \/ \E p \in Paths : EditDelete(p) /\ UNCHANGED opt

\* the library without I/O errors: create, finalize and undo called directly
Next ==
    \/ Env
    \/ \E now \in RunIds : create_history_entry(now, {}) /\ UNCHANGED opt
    \/ \E k \in RunIds : finalize_history_entry(k, {}) /\ UNCHANGED opt
    \/ \E k \in RunIds, force \in BOOLEAN : undo_history(k, force, {})

Spec == Init /\ [][Next]_vars

\* the library when calls can raise OSError
NextIO ==
    \/ Env
    \/ \E k \in RunIds,
          name \in {"before_manifest.json", "after_manifest.json", "changes.json"} :
          LoseRecord(k, name)
    \/ /\ creates < MaxCreatesIO
       /\ \E now \in RunIds, F \in CreateFaults :
             create_history_entry(now, F) /\ UNCHANGED opt
    \/ \E k \in RunIds, F \in ScanFaults :
          finalize_history_entry(k, F) /\ UNCHANGED opt
    \/ /\ undos < MaxUndosIO
       /\ \E k \in RunIds, force \in BOOLEAN, F \in UndoFaults :
             undo_history(k, force, F)

SpecIO == Init /\ [][NextIO]_vars

\* the command line: undo reached through undo-apply and undo-last
NextCmd ==
    \/ Env
    \/ \E now \in RunIds : create_history_entry(now, {}) /\ UNCHANGED opt
    \/ \E k \in RunIds : finalize_history_entry(k, {}) /\ UNCHANGED opt
    \/ /\ undos < MaxCmds
       /\ \E k \in RunIds, force \in BOOLEAN : cmd_undo_apply(k, force, {})
    \/ /\ undos < MaxCmds
       /\ \E force \in BOOLEAN : cmd_undo_last(force, {})

SpecCmd == Init /\ [][NextCmd]_vars

(***************************************************************************)
(* Vocabulary of the properties.                                           *)
(***************************************************************************)
UndoCalled == last.op = "undo_history"

\* the entry the last call was about, as the call found it
EntryPre == histPre[last.run_id]

ChangedPaths(dir) ==
    Range(dir.changes.added) \cup Range(dir.changes.modified)
        \cup Range(dir.changes.deleted)

RestorablePaths(dir) ==
    Range(dir.changes.modified) \cup Range(dir.changes.deleted)

\* path p is the same file, or as absent, in trees f and g
SameFile(f, g, p) ==
    IF p \in DOMAIN f THEN p \in DOMAIN g /\ g[p] = f[p] ELSE p \notin DOMAIN g

\* the paths outside the excluded directories
Tracked == {p \in Paths : FirstPart[p] \notin ExcludedDirs}

\* the paths of the entry whose live hash differs from their AFTER hash
DivergedPaths(f, dir) ==
    {p \in RestorablePaths(dir) :
        /\ p \in DOMAIN f
        /\ p \in DOMAIN dir.after
        /\ _sha256(f[p]) # dir.after[p].sha256}

\* the last call was an undo right after create -> mutation -> finalize:
\* the entry was created and finalized, and the repository is as the
\* finalize found it
RoundTrip ==
    /\ UndoCalled
    /\ snap[last.run_id].created
    /\ snap[last.run_id].finalized
    /\ ~Incomplete(EntryPre)
    /\ \A p \in Tracked :
          IF p \in DOMAIN EntryPre.after
          THEN p \in DOMAIN fsPre /\ _sha256(fsPre[p]) = EntryPre.after[p].sha256
          ELSE p \notin DOMAIN fsPre

\* what the mutation of the round trip did, from the repository at create
\* (fs0) and at undo (fsPre)
MutationAdded == {p \in Tracked : p \notin DOMAIN snap[last.run_id].fs0
                                  /\ p \in DOMAIN fsPre}

MutationDeleted == {p \in Tracked : p \in DOMAIN snap[last.run_id].fs0
                                    /\ p \notin DOMAIN fsPre}

MutationModified == {p \in Tracked : /\ p \in DOMAIN snap[last.run_id].fs0
                                     /\ p \in DOMAIN fsPre
                                     /\ snap[last.run_id].fs0[p] # fsPre[p]}

(***************************************************************************)
(* C1. Round trip: create -> mutation -> finalize -> undo without force,   *)
(* with nothing else in between and no I/O error, is not refused; after    *)
(* it every path the mutation added is absent, every path it modified or   *)
(* deleted that was backed up holds the bytes it had at creation, and if   *)
(* every modified or deleted path was backed up the manifest of the        *)
(* repository equals the BEFORE manifest.                                  *)
(***************************************************************************)
C1_RoundTrip ==
    (RoundTrip /\ ~last.force) =>
        LET fs0 == snap[last.run_id].fs0
            backed == EntryPre.meta.backed_up_files
            changed == MutationModified \cup MutationDeleted
        IN /\ last.outcome = "returned"
           /\ \A p \in MutationAdded : p \notin DOMAIN fs
           /\ \A p \in changed \cap backed : p \in DOMAIN fs /\ fs[p] = fs0[p]
           /\ changed \subseteq backed => build_manifest(fs, {}) = EntryPre.before

\* an undo of a round trip whose mutation modified a backed-up file and
\* changed a second path, every change reverted
C1_Witness ==
    /\ RoundTrip /\ ~last.force
    /\ last.outcome = "returned"
    /\ \E p \in MutationModified \cap EntryPre.meta.backed_up_files :
          fs[p] = snap[last.run_id].fs0[p] /\ fs[p] # fsPre[p]
    /\ Cardinality(MutationAdded \cup MutationDeleted \cup MutationModified) = 2
    /\ build_manifest(fs, {}) = EntryPre.before

(***************************************************************************)
(* C2. Divergence block: an undo without force of a complete entry with    *)
(* at least one modified or deleted path whose live hash differs from its  *)
(* AFTER hash raises, the message lists exactly the diverged paths, and    *)
(* neither the repository nor the history changed.                         *)
(***************************************************************************)
C2_DivergenceBlock ==
    (/\ UndoCalled /\ ~last.force
     /\ ~(~EntryPre.has_changes \/ ~EntryPre.has_after \/ ~EntryPre.has_before)
     /\ DivergedPaths(fsPre, EntryPre) # {}) =>
        /\ last.outcome = "RuntimeError"
        /\ Range(last.divergent) = DivergedPaths(fsPre, EntryPre)
        /\ fs = fsPre
        /\ hist = histPre

\* a refused undo of an entry with a backed-up file that the mutation
\* changed and somebody changed again
C2_Witness ==
    /\ UndoCalled /\ ~last.force
    /\ last.outcome = "RuntimeError"
    /\ \E p \in DivergedPaths(fsPre, EntryPre) \cap DOMAIN EntryPre.backup :
          /\ last.divergent = <<p>>
          /\ fs[p] # EntryPre.backup[p]

(***************************************************************************)
(* C3. Divergence override: an undo with force of a complete entry is not  *)
(* refused, and every modified or deleted path with a backup copy ends     *)
(* with the bytes of the copy.                                             *)
(***************************************************************************)
C3_ForceOverride ==
    (/\ UndoCalled /\ last.force
     /\ ~(~EntryPre.has_changes \/ ~EntryPre.has_after \/ ~EntryPre.has_before)) =>
        /\ last.outcome = "returned"
        /\ \A p \in RestorablePaths(EntryPre) \cap DOMAIN EntryPre.backup :
              p \in DOMAIN fs /\ fs[p] = EntryPre.backup[p]

\* a forced undo that overwrote a diverged file with its backup
C3_Witness ==
    /\ UndoCalled /\ last.force
    /\ last.outcome = "returned"
    /\ \E p \in DivergedPaths(fsPre, EntryPre) \cap DOMAIN EntryPre.backup :
          fs[p] = EntryPre.backup[p] /\ fsPre[p] # EntryPre.backup[p]

(***************************************************************************)
(* C4. No-history: an undo of a run id whose directory is absent or lacks  *)
(* the BEFORE manifest, the AFTER manifest or the changes record raises    *)
(* and leaves the repository and the history as they were, forced or not.  *)
(***************************************************************************)
C4_NoHistory ==
    (/\ UndoCalled
     /\ \/ ~EntryPre.exists
        \/ ~EntryPre.has_before
        \/ ~EntryPre.has_after
        \/ ~EntryPre.has_changes) =>
        /\ last.outcome = "FileNotFoundError"
        /\ fs = fsPre
        /\ hist = histPre

\* a forced undo of an entry that lost its AFTER manifest only, with a
\* backed-up file recorded as changed
C4_Witness ==
    /\ UndoCalled /\ last.force
    /\ EntryPre.has_before /\ EntryPre.has_changes /\ ~EntryPre.has_after
    /\ RestorablePaths(EntryPre) \cap DOMAIN EntryPre.backup # {}
    /\ last.outcome = "FileNotFoundError"

(***************************************************************************)
(* C5. Frame of undo: in every outcome, undo leaves every path that is not *)
(* in the added, modified or deleted list of the entry as it was, and      *)
(* leaves every file of the history root as it was.                        *)
(***************************************************************************)
C5_UndoFrame ==
    UndoCalled =>
        /\ hist = histPre
        /\ \A p \in Paths :
              (EntryPre.has_changes /\ p \in ChangedPaths(EntryPre))
                 \/ SameFile(fsPre, fs, p)

\* an undo that reverted something and left alone a backed-up file that is
\* not in the change set and no longer equals its backup
C5_Witness ==
    /\ UndoCalled
    /\ last.outcome = "returned"
    /\ fs # fsPre
    /\ \E p \in (DOMAIN EntryPre.backup) \ ChangedPaths(EntryPre) :
          p \in DOMAIN fs /\ fs[p] # EntryPre.backup[p]

(***************************************************************************)
(* C6. Undo report: an undo that is not refused returns a summary          *)
(* (restored, removed, skipped_no_backup), and undo-apply and undo-last    *)
(* print the three counts and return exit code 0.                          *)
(***************************************************************************)
C6_UndoReport ==
    (/\ last.op \in {"cmd_undo_apply", "cmd_undo_last"}
     /\ last.run_id # 0
     /\ EntryPre.has_changes /\ EntryPre.has_after /\ EntryPre.has_before
     /\ (last.force \/ DivergedPaths(fsPre, EntryPre) = {})) =>
        /\ last.ret = "summary"
        /\ last.outcome = "returned"
        /\ last.exit = 0
        /\ last.printed = <<"Reverted snapshot", "Restored | Removed | Skipped">>

(***************************************************************************)
(* C7. Backup gap: undo, forced or not, leaves a modified or deleted path  *)
(* of the BEFORE manifest that create did not back up exactly as it found  *)
(* it.                                                                     *)
(***************************************************************************)
C7_BackupGap ==
    (/\ UndoCalled
     /\ EntryPre.has_changes /\ EntryPre.has_after /\ EntryPre.has_before) =>
        \A p \in RestorablePaths(EntryPre) :
            (p \in DOMAIN EntryPre.before
             /\ p \notin EntryPre.meta.backed_up_files) => SameFile(fsPre, fs, p)

(***************************************************************************)
(* C8. All-or-nothing: undo of a complete entry either refuses and changes *)
(* nothing, or returns with every added path absent and every modified or  *)
(* deleted path that has a backup holding the backup's bytes, also when    *)
(* deleting or writing a file fails.                                       *)
(***************************************************************************)
C8_AllOrNothing ==
    (/\ UndoCalled
     /\ EntryPre.has_changes /\ EntryPre.has_after /\ EntryPre.has_before) =>
        \/ last.outcome = "RuntimeError" /\ fs = fsPre
        \/ /\ last.outcome = "returned"
           /\ \A p \in Range(EntryPre.changes.added) : p \notin DOMAIN fs
           /\ \A p \in RestorablePaths(EntryPre) \cap DOMAIN EntryPre.backup :
                 p \in DOMAIN fs /\ fs[p] = EntryPre.backup[p]

(***************************************************************************)
(* C9. ChangeSet: finalize returns and persists added = AFTER keys not in  *)
(* BEFORE, deleted = BEFORE keys not in AFTER, modified = common keys      *)
(* with different hashes, BEFORE being the manifest persisted at creation  *)
(* and AFTER the manifest of the repository at finalize; the three lists   *)
(* are disjoint and leave out the common keys with equal hashes.           *)
(***************************************************************************)
C9_ChangeSet ==
    (last.op = "finalize_history_entry" /\ last.outcome = "returned") =>
        LET dir == hist[last.run_id]
            ch == dir.changes
            B == dir.before
            A == dir.after
            added == Range(ch.added)
            deleted == Range(ch.deleted)
            modified == Range(ch.modified)
        IN /\ dir.has_changes /\ dir.has_after
           /\ last.changes = ch
           /\ B = EntryPre.before
           /\ B = build_manifest(snap[last.run_id].fs0, {})
           /\ A = build_manifest(fs, {})
           /\ added = (DOMAIN A) \ (DOMAIN B)
           /\ deleted = (DOMAIN B) \ (DOMAIN A)
           /\ modified = {p \in (DOMAIN A) \cap (DOMAIN B) :
                             A[p].sha256 # B[p].sha256}
           /\ added \cap deleted = {}
           /\ added \cap modified = {}
           /\ deleted \cap modified = {}
           /\ Len(ch.added) = Cardinality(added)
           /\ Len(ch.deleted) = Cardinality(deleted)
           /\ Len(ch.modified) = Cardinality(modified)
           /\ \A p \in (DOMAIN A) \cap (DOMAIN B) :
                 A[p].sha256 = B[p].sha256 =>
                     p \notin added \cup deleted \cup modified

\* a finalize that recorded train.py as modified (same size, other bytes)
\* and one more path as added or deleted
C9_Witness ==
    /\ last.op = "finalize_history_entry"
    /\ last.changes.modified = <<"train.py">>
    /\ Len(fs["train.py"]) = Len(snap[last.run_id].fs0["train.py"])
    /\ Len(last.changes.added) + Len(last.changes.deleted) = 1

(***************************************************************************)
(* C10. Finalize is idempotent: a finalize right after a finalize of the   *)
(* same entry returns the same ChangeSet, leaves the AFTER manifest and    *)
(* the changes record as they were, is not an error, and changes nothing   *)
(* else in the repository or the history.                                  *)
(***************************************************************************)
C10_FinalizeIdempotent ==
    (last.op = "finalize_history_entry" /\ last.again) =>
        /\ last.outcome = "returned"
        /\ last.changes = EntryPre.changes
        /\ hist = histPre
        /\ fs = fsPre

\* a second finalize of an entry whose mutation changed a file
C10_Witness ==
    /\ last.op = "finalize_history_entry" /\ last.again
    /\ last.changes.modified # <<>>
    /\ hist[last.run_id].changes = EntryPre.changes

(***************************************************************************)
(* optimize_repo: profile, analyze, then in apply mode snapshot, mutator,  *)
(* finalize, profile.  opt.pc is the step the call is about to run,        *)
(* opt.outcome the exception that ended it; opt.prompts lists the calls of *)
(* _run_prompt_in_repo by prompt name, opt.profiles counts the profile     *)
(* runs that ran, opt.creates_at_call is the number of history entries     *)
(* created before the call.                                                *)
(***************************************************************************)
\* the step that follows step pc of optimize_repo when pc returns normally
next_pc(pc, o) ==
    CASE pc = "profile_before" ->
            IF o.apply \/ o.plan THEN "analyze" ELSE "returned"
      [] pc = "analyze" ->
            IF o.apply THEN (IF ~o.yes THEN "raised" ELSE "create") ELSE "returned"
      [] pc = "create" -> "mutate"
      [] pc = "mutate" -> "finalize"
      [] pc = "finalize" -> "profile_after"
      [] OTHER -> "returned"

\* what a step of optimize_repo leaves of the history variables' ghosts
OptStep(name) ==
    /\ last' = [NoCall EXCEPT !.op = name]
    /\ fsPre' = fs
    /\ histPre' = hist
    /\ UNCHANGED <<fs, clock, hist, snap, edits, creates, undos, faults, runs, proc>>

\* apply together with plan raises ValueError before anything runs
optimize_repo(apply, plan, yes) ==
    /\ opt.pc \in {"idle", "returned", "raised"}
    /\ opt' = [NoOpt EXCEPT !.apply = apply, !.plan = plan, !.yes = yes,
                            !.creates_at_call = creates,
                            !.pc = IF apply /\ plan THEN "raised"
                                   ELSE "profile_before",
                            !.outcome = IF apply /\ plan THEN "ValueError"
                                        ELSE "none"]
    /\ OptStep("optimize_repo")

\* the parameters of core.run_safe_profile
ProfileParameters ==
    {"root", "training_script", "max_steps", "log_dir", "python_executable"}

\* the keyword arguments optimize_repo calls run_safe_profile with
ProfileKeywords == {"root", "training_script", "max_steps", "isolated"}

\* before_res = run_safe_profile(root=..., training_script=...,
\* max_steps=..., isolated=True): a keyword that is no parameter of the
\* function raises TypeError before its body runs
run_safe_profile ==
    /\ opt.pc \in {"profile_before", "profile_after"}
    /\ opt' = IF ProfileKeywords \subseteq ProfileParameters
              THEN [opt EXCEPT !.pc = next_pc(opt.pc, opt),
                               !.profiles = @ + 1]
              ELSE [opt EXCEPT !.pc = "raised", !.outcome = "TypeError"]
    /\ OptStep("run_safe_profile")

NextOpt ==
    \/ \E apply, plan, yes \in BOOLEAN : optimize_repo(apply, plan, yes)
    \/ run_safe_profile
    \/ Env

SpecOpt == Init /\ [][NextOpt]_vars

(***************************************************************************)
(* prepare_isolated_run: copy the repository into <runs root>/<timestamp>/ *)
(* repo, check the script is in the copy, write the guard module.          *)
(***************************************************************************)
\* the names _ignore_copytree leaves out of the copy
IgnoredNames == {".git", ".venv", "venv", "__pycache__", "build", "dist",
                 ".pytest_cache", ".ruff_cache", ".lyra"}

\* directories under the repository root a caller can name: the root
\* itself and a directory of an ignored name
Dirs == {".", ".git"}

\* the segments of the directories
DirParts == [d \in Dirs |-> IF d = "." THEN <<>> ELSE <<d>>]

\* what training_script.relative_to(repo) accepts: the paths under the
\* repository root, files or directories, existing or not
UnderRepo == Paths \cup Dirs

\* the scripts a caller can name: a file or a directory of the repository,
\* or a path that is not under the repository root
Scripts == UnderRepo \cup {"/elsewhere/train.py"}

\* Path.exists() of rel in tree f: a file of the tree, its root, or a
\* directory a file of the tree is under
PathExists(f, rel) ==
    IF rel \in Dirs
    THEN \/ rel = "."
         \/ \E p \in DOMAIN f :
               /\ Len(Parts[p]) > Len(DirParts[rel])
               /\ SubSeq(Parts[p], 1, Len(DirParts[rel])) = DirParts[rel]
    ELSE rel \in DOMAIN f

\* shutil.copytree(repo, isolated_repo, ignore=_ignore_copytree)
copytree(f) ==
    [p \in {q \in DOMAIN f :
               \A i \in 1..Len(Parts[q]) : Parts[q][i] \notin IgnoredNames}
        |-> f[p]]

\* script_exists looking for the script in the original repository
script_exists_in_original(f, copy, rel_script) == PathExists(f, rel_script)

\* isolated_script.exists(): a file or a directory is at the script's
\* relative path in the copy
script_exists(f, copy, rel_script) == PathExists(copy, rel_script)

\* runs_root with None replaced by the default
the_runs_root_default_only(runs_root) == DefaultRunsRoot

\* if runs_root is None: runs_root = repo / ".lyra" / "runs"
the_runs_root(runs_root) ==
    IF runs_root = "None" THEN DefaultRunsRoot ELSE runs_root

\* copytree over an existing target
target_exists_ok(run) == FALSE

\* shutil.copytree(..., dirs_exist_ok=False) finds the target directory
target_exists(run) == run.has_repo

\* the repository holds run directories that copytree walks into
HoldsRuns(rs) == \E r \in WalkedRoots, t \in RunIds : rs[r][t].exists

\* how the walk of shutil.copytree(repo, isolated_repo) can end.  A target
\* inside a walked directory of the repository is copied into itself, level
\* after level, until a path is too long (OSError, gathered into
\* shutil.Error when the walk is through) or the interpreter's recursion
\* limit is hit (RecursionError, raised at once); run directories left in
\* the repository by such a call are walked by every later call, which
\* gets through them or fails the same way, by the length of the target's
\* path and the depth of the call
CopyErrors(root, rs) ==
    IF root \in WalkedRoots THEN {"shutil.Error", "RecursionError"}
    ELSE IF HoldsRuns(rs) THEN {"none", "shutil.Error", "RecursionError"}
    ELSE {"none"}

\* the files at the root of the copy when the walk ended with err: all of
\* them, or with a RecursionError those that os.scandir listed before the
\* directory the walk went into
CopiedFiles(f, err) ==
    IF err = "RecursionError" THEN SUBSET (DOMAIN copytree(f))
    ELSE {DOMAIN copytree(f)}

prepare_isolated_run(training_script, runs_root, now, err, copied) ==
    /\ now >= clock
    /\ clock' = now
    /\ LET timestamp == now
           root == the_runs_root(runs_root)
           run_dir == runs[root][timestamp]
           copy == [p \in copied \cap DOMAIN copytree(fs) |-> fs[p]]
           call == [NoCall EXCEPT !.op = "prepare_isolated_run",
                                  !.run_id = timestamp,
                                  !.runs_root = root,
                                  !.runs_root_arg = runs_root,
                                  !.runs_before = runs,
                                  !.script = training_script,
                                  !.guard_before = run_dir.sitecustomize]
       IN IF training_script \notin UnderRepo
          THEN \* training_script.relative_to(repo) raises
               /\ runs' = runs
               /\ last' = [call EXCEPT !.outcome = "ValueError"]
          ELSE IF target_exists(run_dir)
          THEN \* isolated_repo.parent.mkdir(exist_ok=True), then copytree
               \* with dirs_exist_ok=False finds the directory
               /\ runs' = [runs EXCEPT ![root][timestamp].exists = TRUE]
               /\ last' = [call EXCEPT !.outcome = "FileExistsError"]
          ELSE /\ err \in CopyErrors(root, runs)
               /\ copied \in CopiedFiles(fs, err)
               /\ IF err # "none"
                  THEN \* copytree raises: what it copied stays
                       /\ runs' = [runs EXCEPT ![root][timestamp] =
                                     [@ EXCEPT !.exists = TRUE,
                                               !.has_repo = TRUE,
                                               !.repo = copy,
                                               !.nested = TRUE]]
                       /\ last' = [call EXCEPT !.outcome = err]
                  ELSE IF ~script_exists(fs, copy, training_script)
                  THEN /\ runs' = [runs EXCEPT ![root][timestamp] =
                                     [@ EXCEPT !.exists = TRUE,
                                               !.has_repo = TRUE,
                                               !.repo = copy,
                                               !.nested = HoldsRuns(runs)]]
                       /\ last' = [call EXCEPT !.outcome = "FileNotFoundError"]
                  ELSE /\ runs' = [runs EXCEPT ![root][timestamp] =
                                     [@ EXCEPT !.exists = TRUE,
                                               !.has_repo = TRUE,
                                               !.repo = copy,
                                               !.nested = HoldsRuns(runs),
                                               !.sitecustomize = TRUE,
                                               !.returned = @ + 1]]
                       /\ last' = [call EXCEPT
                                     !.outcome = "returned",
                                     !.ret = "IsolatedRun",
                                     !.isolated_script =
                                         <<root, timestamp, "repo",
                                           training_script>>]
    /\ fsPre' = fs
    /\ histPre' = hist
    /\ UNCHANGED <<fs, hist, snap, edits, creates, undos, faults, opt, proc>>

\* the run directories holding a copy of the repository
RunDirs(rs) == {d \in RunsRoots \X RunIds : rs[d[1]][d[2]].has_repo}

NextIso ==
    \/ edits < MaxEditsIso /\ Env
    \/ \E training_script \in Scripts, runs_root \in RunsRootArgs,
          now \in RunIds :
          /\ Cardinality(RunDirs(runs)) < MaxRuns
          /\ \E err \in CopyErrors(the_runs_root(runs_root), runs) :
                \E copied \in CopiedFiles(fs, err) :
                   prepare_isolated_run(training_script, runs_root, now,
                                        err, copied)

SpecIso == Init /\ [][NextIso]_vars

(***************************************************************************)
(* The guard module (SAFE_PROFILE_SITECUSTOMIZE) in a Python process that  *)
(* loads it at start-up and then runs a script calling Optimizer.step,     *)
(* torch.save and torch.jit.save.                                          *)
(***************************************************************************)
\* values of LYRA_SAFE_PROFILE and LYRA_DISABLE_SAVING; "unset" is None
FlagValues == {"unset", "1", "0", " On "}

\* v.strip().lower()
StripLower(v) == IF v = " On " THEN "on" ELSE v

_truthy(v) ==
    IF v = "unset" THEN FALSE
    ELSE StripLower(v) \in {"1", "true", "yes", "y", "on"}

\* values of LYRA_MAX_STEPS
StepValues == {"unset", "0", "1", "2", "abc"}

DefaultMaxSteps == 100

\* int(raw) where it does not raise
IntOf == [r \in {"0", "1", "2", "100"} |->
             CASE r = "0" -> 0 [] r = "1" -> 1 [] r = "2" -> 2 [] OTHER -> 100]

\* os.environ.get("LYRA_MAX_STEPS", "100"), int() of it, 100 if it raises
ParseMaxSteps(raw) ==
    LET r == IF raw = "unset" THEN "100" ELSE raw
    IN IF r \in DOMAIN IntOf THEN IntOf[r] ELSE DefaultMaxSteps

ReachedMsg == "Reached LYRA_MAX_STEPS. Exiting."

SaveMsg == [f \in {"torch.save", "torch.jit.save"} |->
               IF f = "torch.save" THEN "torch.save disabled"
               ELSE "torch.jit.save disabled"]

\* _warn_once: one flag, shared by every message
_warn_once(pr, msg) ==
    IF pr._warned_save THEN pr
    ELSE [pr EXCEPT !._warned_save = TRUE, !.stderr = Append(@, msg)]

\* the interpreter starts and loads the guard module; status is the exit
\* status the interpreter gives when the module raises SystemExit(0)
\* while it is loaded (1 with a fatal error of the site import, 0 where
\* the SystemExit is honoured)
load_guard(safe, max_steps, disable_saving, torch, status) ==
    /\ proc.phase = "none"
    /\ proc' =
         IF ~_truthy(safe)
         THEN [NoProc EXCEPT !.phase = "exited", !.torch = torch,
                             !.env = [safe |-> safe, max_steps |-> max_steps,
                                      disable_saving |-> disable_saving],
                             !.exit = status, !.by_guard = TRUE]
         ELSE LET LYRA_DISABLE_SAVING == _truthy(disable_saving)
              IN [NoProc EXCEPT
                    !.phase = "running",
                    !.torch = torch,
                    !.env = [safe |-> safe, max_steps |-> max_steps,
                             disable_saving |-> disable_saving],
                    !.LYRA_SAFE = TRUE,
                    !.LYRA_MAX_STEPS = ParseMaxSteps(max_steps),
                    !.LYRA_DISABLE_SAVING = LYRA_DISABLE_SAVING,
                    !.step_patched = torch,
                    !.save_patched = torch /\ LYRA_DISABLE_SAVING,
                    !.jit_patched = torch /\ LYRA_DISABLE_SAVING]
    /\ last' = [NoCall EXCEPT !.op = "load_guard"]
    /\ fsPre' = fs
    /\ histPre' = hist
    /\ UNCHANGED <<fs, clock, hist, snap, edits, creates, undos, faults, opt, runs>>

\* what every call of the script leaves alone
ScriptStep(name) ==
    /\ last' = [NoCall EXCEPT !.op = name]
    /\ fsPre' = fs
    /\ histPre' = hist
    /\ UNCHANGED <<fs, clock, hist, snap, edits, creates, undos, faults, opt, runs>>

\* the optimizers of the script: 1 and 2 are of classes that inherit step
\* from torch.optim.Optimizer, 3 is of a subclass that defines step itself
Optimizers == {1, 2, 3}

\* Opt.step = step replaces the attribute of the base class only: the step
\* of a subclass that defines its own is not the wrapper
OwnStep == {3}

\* what becomes of an exception exc raised in a call of the script: it ends
\* the process at once ("ends": status 0 for SystemExit(0), 1 with a
\* traceback otherwise), it is on its way out while finally blocks or exit
\* handlers run ("pending", in place of one that was pending), or the
\* script catches it, or the thread it ends is not the main thread
\* ("caught"), and the script goes on
Raise(pr, exc, how) ==
    CASE how = "ends" ->
            [pr EXCEPT !.phase = "exited",
                       !.exit = IF exc = "SystemExit" THEN 0 ELSE 1,
                       !.by_guard = (exc = "SystemExit"),
                       !.pending = "none"]
      [] how = "pending" -> [pr EXCEPT !.phase = "unwinding", !.pending = exc]
      [] OTHER -> pr

\* the ways of Raise
Hows == {"ends", "pending", "caught"}

\* the script calls step() on one of its optimizers.  The wrapper runs
\* original_step first: when that raises (raises), the exception leaves the
\* wrapper and nothing is counted.  The counter is one for all instances;
\* at the limit the wrapper prints through _warn_once and raises
\* SystemExit(0)
step(optimizer, raises, how) ==
    /\ proc.phase \in {"running", "unwinding"}
    /\ proc.torch
    /\ proc.step_calls + proc.save_calls < MaxCalls
    /\ LET called == [proc EXCEPT !.step_calls = @ + 1,
                                  !.original_steps[optimizer] = @ + 1]
           counted == [called EXCEPT !.steps = @ + 1]
           warned == [_warn_once(counted, ReachedMsg) EXCEPT !.exits = @ + 1]
       IN proc' =
            IF raises THEN Raise(called, "Exception", how)
            ELSE IF ~proc.step_patched \/ optimizer \in OwnStep THEN called
            ELSE IF counted.steps >= proc.LYRA_MAX_STEPS
            THEN Raise(warned, "SystemExit", how)
            ELSE counted
    /\ ScriptStep("step")

\* the script calls torch.save or torch.jit.save
save(f) ==
    /\ proc.phase \in {"running", "unwinding"}
    /\ proc.torch
    /\ proc.step_calls + proc.save_calls < MaxCalls
    /\ LET called == [proc EXCEPT
                        !.save_calls = @ + 1,
                        !.first_save = IF @ = "none" THEN f ELSE @]
           patched == IF f = "torch.save" THEN proc.save_patched
                      ELSE proc.jit_patched
       IN proc' = IF patched THEN _warn_once(called, SaveMsg[f])
                  ELSE [called EXCEPT !.original_saves = @ + 1]
    /\ ScriptStep("save")

\* the finally blocks and exit handlers are through: the pending exception
\* ends the process
unwound ==
    /\ proc.phase = "unwinding"
    /\ proc' = Raise(proc, proc.pending, "ends")
    /\ ScriptStep("unwound")

\* the script runs to its end
script_end ==
    /\ proc.phase = "running"
    /\ proc' = [proc EXCEPT !.phase = "finished", !.exit = 0]
    /\ ScriptStep("script_end")

NextGuard ==
    \/ \E safe \in FlagValues, max_steps \in StepValues,
          disable_saving \in FlagValues, torch \in BOOLEAN, status \in {0, 1} :
          load_guard(safe, max_steps, disable_saving, torch, status)
    \/ \E optimizer \in Optimizers, raises \in BOOLEAN, how \in Hows :
          step(optimizer, raises, how)
    \/ \E f \in {"torch.save", "torch.jit.save"} : save(f)
    \/ unwound
    \/ script_end

SpecGuard == Init /\ [][NextGuard]_vars

\* build_manifest on its own: the tree is edited, the manifest built
NextManifest ==
    \/ Env
    \/ \E order \in Orders(fs) : build_manifest_call(order, {})

SpecManifest == Init /\ [][NextManifest]_vars

\* the contents of the files of the scanned trees
ScanContents == {<<1>>, <<1, 1>>}

\* the trees build_manifest is called on
ScanTrees == UNION {[S -> ScanContents] : S \in SUBSET ScanPaths}

InitScan ==
    /\ fs \in ScanTrees
    /\ clock = 1
    /\ hist = [k \in RunIds |-> NoDir]
    /\ last = NoCall
    /\ fsPre = fs
    /\ histPre = [k \in RunIds |-> NoDir]
    /\ snap = [k \in RunIds |-> NoSnap]
    /\ edits = 0
    /\ creates = 0
    /\ undos = 0
    /\ faults = 0
    /\ opt = NoOpt
    /\ runs = NoRuns
    /\ proc = NoProc

\* one call of build_manifest on a tree, some file of which may be
\* unreadable
NextScan ==
    \E order \in Orders(fs), unreadable \in SUBSET DOMAIN fs :
        /\ last.op = "none"
        /\ Cardinality(unreadable) <= 1
        /\ build_manifest_call(order, unreadable)

SpecScan == InitScan /\ [][NextScan]_vars

(***************************************************************************)
(* C11. Manifest determinism: a build gives the same manifest whatever the *)
(* order of the traversal, two builds with no edit in between give equal   *)
(* manifests, and the manifest is the one create and finalize compute from *)
(* the paths and bytes of the tree.                                        *)
(***************************************************************************)
C11_ManifestDeterminism ==
    last.op = "build_manifest" =>
        /\ \A o \in Orders(fs) : build_manifest_walk(fs, o, {}) = last.manifest
        /\ last.again => last.manifest = last.prev.manifest
        /\ last.manifest = build_manifest(fs, {})
        /\ \A p \in DOMAIN last.manifest :
              last.manifest[p] = [rel_path |-> p, size |-> Len(fs[p]),
                                  sha256 |-> _sha256(fs[p])]

\* a second build in another order than the first, over a tree with an
\* excluded file and two others
C11_Witness ==
    /\ last.op = "build_manifest" /\ last.again
    /\ last.order # last.prev.order
    /\ Cardinality(DOMAIN last.manifest) = 2
    /\ Cardinality(DOMAIN fs) = 3
    /\ last.manifest = last.prev.manifest

(***************************************************************************)
(* Claims about create_history_entry.                                      *)
(***************************************************************************)
CreateReturned == last.op = "create_history_entry" /\ last.outcome = "returned"

\* the entry as the last call left it
EntryPost == hist[last.run_id]

\* the sniff or the copy of p raised OSError in the last create
CopyFailed(p) ==
    \/ \E kind \in {"sniff", "copy"} : <<kind, p, 0>> \in last.io
    \/ p \in DOMAIN Short(last.io, fsPre)

(***************************************************************************)
(* C12 as stated. Backup eligibility: create copies a file of the BEFORE   *)
(* manifest if and only if its extension is in the allow-list, its size is *)
(* below max_backup_bytes and it has no null byte; the copy has the file's *)
(* bytes and backed_up_files lists exactly the copied paths.               *)
(***************************************************************************)
C12_BackupEligibility ==
    CreateReturned =>
        \A p \in DOMAIN EntryPost.before :
            /\ p \in EntryPost.meta.backed_up_files <=>
                   /\ Suffix[p] \in DEFAULT_BACKUP_EXTENSIONS
                   /\ Len(fsPre[p]) < MaxBackupBytes
                   /\ ~HasNull(Sniffed(fsPre[p]))
            /\ p \in EntryPost.meta.backed_up_files =>
                   p \in DOMAIN EntryPost.backup /\ EntryPost.backup[p] = fsPre[p]

(***************************************************************************)
(* C12 amended. create copies a file of the BEFORE manifest if and only    *)
(* if its extension is in the allow-list, its size is not above            *)
(* max_backup_bytes (a file of exactly that size is copied), it has no     *)
(* null byte in its leading bytes and neither the sniff nor the copy       *)
(* raised OSError; the copy has the file's bytes and backed_up_files lists *)
(* exactly the copied paths.                                               *)
(***************************************************************************)
C12_BackupEligibilityAmended ==
    CreateReturned =>
        \A p \in DOMAIN EntryPost.before :
            /\ p \in EntryPost.meta.backed_up_files <=>
                   /\ Suffix[p] \in DEFAULT_BACKUP_EXTENSIONS
                   /\ Len(fsPre[p]) <= MaxBackupBytes
                   /\ ~HasNull(Sniffed(fsPre[p]))
                   /\ ~CopyFailed(p)
            /\ p \in EntryPost.meta.backed_up_files =>
                   p \in DOMAIN EntryPost.backup /\ EntryPost.backup[p] = fsPre[p]

\* a create that copied a file of exactly the ceiling's size
C12_Witness ==
    /\ CreateReturned
    /\ \E p \in EntryPost.meta.backed_up_files :
          /\ Len(fsPre[p]) = MaxBackupBytes
          /\ EntryPost.backup[p] = fsPre[p]

(***************************************************************************)
(* C13. Skipped list: after create, every path of the BEFORE manifest is   *)
(* in exactly one of backed_up_files and skipped_files.                    *)
(***************************************************************************)
C13_SkippedList ==
    CreateReturned =>
        /\ EntryPost.meta.backed_up_files \cap EntryPost.meta.skipped_files = {}
        /\ EntryPost.meta.backed_up_files \cup EntryPost.meta.skipped_files
               = DOMAIN EntryPost.before

(***************************************************************************)
(* C14. Run identifiers are unique: a create gets a run id no earlier      *)
(* create got, and leaves every existing history directory as it was.      *)
(***************************************************************************)
C14_UniqueRunIds ==
    CreateReturned =>
        /\ ~EntryPre.exists
        /\ \A k \in RunIds : histPre[k].exists => hist[k] = histPre[k]

(***************************************************************************)
(* Claims about the snapshot of an entry.                                  *)
(***************************************************************************)
\* how often e occurs in the sequence log
Occurrences(log, e) == Cardinality({i \in 1..Len(log) : log[i] = e})

\* the flags of an optimize_repo call in apply mode that was confirmed
ApplyCall == [apply |-> TRUE, plan |-> FALSE, yes |-> TRUE]

C16_SandboxScriptCheck ==
    last.op = "prepare_isolated_run" =>
        LET run == runs[last.runs_root][last.run_id]
            found == /\ last.script \in UnderRepo
                     /\ run.has_repo
                     /\ PathExists(run.repo, last.script)
                     /\ PathExists(fsPre, last.script)
                     /\ last.script \in Paths =>
                           run.repo[last.script] = fsPre[last.script]
        IN /\ last.outcome = "returned" => found
           /\ last.outcome = "returned" =>
                 /\ last.ret = "IsolatedRun"
                 /\ run.sitecustomize
                 /\ last.isolated_script =
                        <<last.runs_root, last.run_id, "repo", last.script>>
           /\ last.outcome # "returned" =>
                 /\ last.outcome \in {"ValueError", "FileExistsError",
                                       "FileNotFoundError", "shutil.Error",
                                       "RecursionError"}
                 /\ last.ret = "none"
                 /\ last.isolated_script = <<>>
                 /\ run.sitecustomize = last.guard_before
           /\ ~PathExists(copytree(fsPre), last.script) =>
                 last.outcome # "returned"

\* a call that named a script of an ignored directory: the repository has
\* it, the fresh copy has not, the call raised and wrote no guard module
C16_Witness ==
    /\ last.op = "prepare_isolated_run"
    /\ last.script \in DOMAIN fsPre
    /\ runs[last.runs_root][last.run_id].has_repo
    /\ last.script \notin DOMAIN runs[last.runs_root][last.run_id].repo
    /\ "train.py" \in DOMAIN runs[last.runs_root][last.run_id].repo
    /\ last.outcome = "FileNotFoundError"
    /\ ~runs[last.runs_root][last.run_id].sitecustomize

(***************************************************************************)
(* Claims about the guard module.                                          *)
(***************************************************************************)
GuardLoaded == proc.phase # "none"

OriginalSteps ==
    proc.original_steps[1] + proc.original_steps[2] + proc.original_steps[3]

SaveLines ==
    Occurrences(proc.stderr, SaveMsg["torch.save"])
        + Occurrences(proc.stderr, SaveMsg["torch.jit.save"])

(***************************************************************************)
(* C17. Inactive guard is a no-op: with LYRA_SAFE_PROFILE absent or not    *)
(* truthy, loading the guard module patches nothing, prints nothing and    *)
(* does not end the process; every step and save call of the script        *)
(* reaches the original function.                                          *)
(***************************************************************************)
C17_InactiveNoOp ==
    (GuardLoaded /\ ~_truthy(proc.env.safe)) =>
        /\ ~proc.step_patched /\ ~proc.save_patched /\ ~proc.jit_patched
        /\ proc.stderr = <<>>
        /\ ~proc.by_guard
        /\ proc.phase \in {"running", "finished"}
        /\ OriginalSteps = proc.step_calls
        /\ proc.original_saves = proc.save_calls

(***************************************************************************)
(* C18. Guard trip: with the guard active and a maximum N >= 1, once the   *)
(* script has called step N times the guard has printed exactly one line   *)
(* announcing the limit and ended the process with status 0 in that N-th   *)
(* call, whatever save calls came before.                                  *)
(***************************************************************************)
C18_GuardTrip ==
    (/\ GuardLoaded /\ proc.LYRA_SAFE /\ proc.torch
     /\ proc.LYRA_MAX_STEPS >= 1
     /\ proc.step_calls >= proc.LYRA_MAX_STEPS) =>
        /\ proc.phase = "exited" /\ proc.by_guard /\ proc.exit = 0
        /\ proc.step_calls = proc.LYRA_MAX_STEPS
        /\ Occurrences(proc.stderr, ReachedMsg) = 1

(***************************************************************************)
(* C19. Step cap: with the guard active, N is the integer value of         *)
(* LYRA_MAX_STEPS (100 when unset or not an integer), the original step is *)
(* executed at most N times over all optimizers, and the counter is the    *)
(* number of those executions (it is never reset).                         *)
(***************************************************************************)
C19_StepCap ==
    (GuardLoaded /\ proc.LYRA_SAFE /\ proc.torch) =>
        /\ proc.LYRA_MAX_STEPS =
              (CASE proc.env.max_steps = "0" -> 0
                 [] proc.env.max_steps = "1" -> 1
                 [] proc.env.max_steps = "2" -> 2
                 [] OTHER -> 100)
        /\ proc.steps = OriginalSteps
        /\ OriginalSteps <= proc.LYRA_MAX_STEPS

(***************************************************************************)
(* C20. Persistence guard: with the guard active and LYRA_DISABLE_SAVING   *)
(* truthy no save call reaches the original function and the guard prints  *)
(* one save line, on the first intercepted call, and no other; with        *)
(* LYRA_DISABLE_SAVING not truthy the save functions are the originals,    *)
(* and the step wrapper is installed and raises at the limit all the same. *)
(***************************************************************************)
C20_PersistenceGuard ==
    (GuardLoaded /\ proc.LYRA_SAFE /\ proc.torch) =>
        IF _truthy(proc.env.disable_saving)
        THEN /\ proc.original_saves = 0
             /\ SaveLines <= 1
             /\ proc.save_calls >= 1 =>
                   /\ SaveLines = 1
                   /\ proc.stderr[1] = SaveMsg[proc.first_save]
        ELSE /\ ~proc.save_patched /\ ~proc.jit_patched
             /\ proc.original_saves = proc.save_calls
             /\ SaveLines = 0
             /\ proc.step_patched
             /\ (proc.steps >= 1 /\ proc.steps >= proc.LYRA_MAX_STEPS) =>
                   proc.exits >= 1

(***************************************************************************)
(* Claims about the sandbox directories.                                   *)
(***************************************************************************)
PrepareCalled == last.op = "prepare_isolated_run"

\* the run directory a call of prepare_isolated_run aimed at, before and
\* after the call
TargetBefore == last.runs_before[last.runs_root][last.run_id]
TargetAfter == runs[last.runs_root][last.run_id]

\* every run directory but the target of the call is as it was
OtherRunsKept ==
    \A r \in RunsRoots, t \in RunIds :
        <<r, t>> # <<last.runs_root, last.run_id>> =>
            runs[r][t] = last.runs_before[r][t]

\* all there is under the original repository root: its files, the history
\* and the run directories made under it
UnderRoot(f, h, rs) == <<f, h, [r \in InRepoRoots |-> rs[r]]>>

(***************************************************************************)
(* C21. Sandbox leaves the original read-only: after prepare_isolated_run  *)
(* every file of the original repository has the bytes it had and nothing  *)
(* was added under the original root, for every choice of runs_root, the   *)
(* default included; all writes land inside the new run directory.         *)
(***************************************************************************)
C21_OriginalReadOnly ==
    PrepareCalled =>
        /\ UnderRoot(fs, hist, runs) = UnderRoot(fsPre, histPre, last.runs_before)
        /\ OtherRunsKept

\* C21 amended: after prepare_isolated_run every file the original
\* repository had, those of earlier run directories included, keeps its
\* bytes and every write lands inside the run directory
\* <runs_root>/<timestamp>; nothing is added under the original root when
\* runs_root is given outside it, while the default runs_root is
\* <repo>/.lyra/runs, so that a call without runs_root, like a call with a
\* runs_root inside the repository, adds its run directory under the
\* original root.
C21_OriginalReadOnlyAmended ==
    PrepareCalled =>
        /\ fs = fsPre
        /\ hist = histPre
        /\ OtherRunsKept
        /\ TargetBefore.has_repo => TargetAfter = TargetBefore
        /\ last.runs_root \notin InRepoRoots =>
               UnderRoot(fs, hist, runs)
                   = UnderRoot(fsPre, histPre, last.runs_before)
        /\ last.runs_root \in InRepoRoots =>
               \A r \in InRepoRoots \ {last.runs_root} :
                   runs[r] = last.runs_before[r]
        /\ last.runs_root_arg = "None" => last.runs_root = DefaultRunsRoot
        /\ last.runs_root_arg # "None" => last.runs_root = last.runs_root_arg

\* a call with a runs_root outside the repository made its copy there and
\* left the directories under the repository as they were
C21_Witness ==
    /\ PrepareCalled
    /\ last.runs_root_arg = "/elsewhere/runs"
    /\ last.outcome = "returned"
    /\ ~TargetBefore.has_repo
    /\ TargetAfter.has_repo
    /\ "train.py" \in DOMAIN TargetAfter.repo
    /\ UnderRoot(fs, hist, runs) = UnderRoot(fsPre, histPre, last.runs_before)

(***************************************************************************)
(* C22. Sandbox runs are never reused: a call that returns hands out a run *)
(* directory whose repo copy did not exist before the call, so no run      *)
(* directory is handed out twice; a call whose timestamped target exists   *)
(* already raises and leaves the target as it was.                         *)
(***************************************************************************)
C22_RunsNeverReused ==
    /\ \A r \in RunsRoots, t \in RunIds : runs[r][t].returned <= 1
    /\ PrepareCalled =>
          /\ last.outcome = "returned" =>
                 /\ ~TargetBefore.has_repo
                 /\ TargetBefore.returned = 0
          /\ TargetBefore.has_repo =>
                 /\ last.outcome \in {"ValueError", "FileExistsError"}
                 /\ TargetAfter = TargetBefore

\* a second call in the second of an earlier successful one, on an edited
\* repository: it raised and the earlier copy is untouched
C22_Witness ==
    /\ PrepareCalled
    /\ last.script \in Paths
    /\ TargetBefore.returned = 1
    /\ last.outcome = "FileExistsError"
    /\ TargetAfter = TargetBefore
    /\ copytree(fs) # TargetAfter.repo

(***************************************************************************)
(* Claims about what undo compares and removes.                            *)
(***************************************************************************)
\* the paths the entry records as deleted that are in tree f again
RecreatedPaths(f, dir) == Range(dir.changes.deleted) \cap DOMAIN f

(***************************************************************************)
(* C23. Re-created deleted file counts as divergence: an undo without      *)
(* force of a complete entry one of whose deleted paths exists again       *)
(* lists that path as diverged, is refused and leaves the repository, the  *)
(* re-created file included, as it was.                                    *)
(***************************************************************************)
C23_RecreatedDeletedDiverges ==
    (/\ UndoCalled /\ ~last.force
     /\ ~Incomplete(EntryPre)
     /\ RecreatedPaths(fsPre, EntryPre) # {}) =>
        /\ last.outcome = "RuntimeError"
        /\ RecreatedPaths(fsPre, EntryPre) \subseteq Range(last.divergent)
        /\ fs = fsPre

(***************************************************************************)
(* C27. No divergence check on added paths: undo compares only modified    *)
(* and deleted paths with the AFTER manifest; when none of them is         *)
(* diverged the undo of a complete entry returns, with or without force,   *)
(* and every added path is absent afterwards, whatever its content was.    *)
(***************************************************************************)
C27_AddedNotChecked ==
    (UndoCalled /\ ~Incomplete(EntryPre)) =>
        /\ Range(last.divergent) \subseteq RestorablePaths(EntryPre)
        /\ DivergedPaths(fsPre, EntryPre) = {} =>
              /\ last.outcome = "returned"
              /\ \A p \in Range(EntryPre.changes.added) : p \notin DOMAIN fs

\* an undo without force that removed an added file whose content was no
\* longer the one of the AFTER manifest
C27_Witness ==
    /\ UndoCalled /\ ~last.force
    /\ ~Incomplete(EntryPre)
    /\ last.outcome = "returned"
    /\ \E p \in Range(EntryPre.changes.added) :
          /\ p \in DOMAIN fsPre
          /\ p \in DOMAIN EntryPre.after
          /\ _sha256(fsPre[p]) # EntryPre.after[p].sha256
          /\ p \notin DOMAIN fs

(***************************************************************************)
(* C24. Added means absent before: every path a finalize records as added  *)
(* was not in the repository when the entry was created and every path it  *)
(* records as deleted is not in the repository at the finalize, also when  *)
(* a file could not be read in one of the two scans; an undo of the entry  *)
(* never removes a file that was in the repository at the creation.        *)
(***************************************************************************)
C24_AddedAbsentBefore ==
    /\ (/\ last.op = "finalize_history_entry"
         /\ last.outcome = "returned"
         /\ snap[last.run_id].created) =>
            /\ \A p \in Range(last.changes.added) :
                   p \notin DOMAIN snap[last.run_id].fs0
            /\ \A p \in Range(last.changes.deleted) : p \notin DOMAIN fs
    /\ (/\ UndoCalled
         /\ snap[last.run_id].created
         /\ snap[last.run_id].finalized) =>
            \A p \in DOMAIN snap[last.run_id].fs0 \cap DOMAIN fsPre :
                p \in DOMAIN fs

(***************************************************************************)
(* C25. Manifest coverage: the keys of the manifest are exactly the        *)
(* readable files of the tree whose first path segment is not an excluded  *)
(* name; an excluded name further down the path does not exclude, so       *)
(* pkg/__pycache__/m.pyc is in the manifest; each key is the relative      *)
(* path and its entry has the size and the digest of the whole content.    *)
(***************************************************************************)
C25_ManifestCoverage ==
    last.op = "build_manifest" =>
        LET unreadable == {p \in ScanPaths : <<"read", p, 0>> \in last.io}
        IN /\ DOMAIN last.manifest =
                 {p \in DOMAIN fs : /\ Parts[p][1] \notin ExcludedDirs
                                    /\ p \notin unreadable}
           /\ (NestedPath \in DOMAIN fs /\ NestedPath \notin unreadable) =>
                 NestedPath \in DOMAIN last.manifest
           /\ \A p \in DOMAIN last.manifest :
                 /\ last.manifest[p].rel_path = p
                 /\ last.manifest[p].size = Len(fs[p])
                 /\ last.manifest[p].sha256 = _sha256(fs[p])

\* a build over a tree with a file in an excluded top directory, a file
\* below a nested __pycache__ and an unreadable file: the manifest has the
\* nested file and neither of the other two
C25_Witness ==
    /\ last.op = "build_manifest"
    /\ {".git/config", NestedPath, "train.py", "model.bin"} \subseteq DOMAIN fs
    /\ last.io = {<<"read", "train.py", 0>>}
    /\ DOMAIN last.manifest = {NestedPath, "model.bin"}
    /\ last.manifest[NestedPath].size = 2

(***************************************************************************)
(* Claims about the modes of optimize_repo.                                *)
(***************************************************************************)
\* the current optimize_repo call has created a history entry
EntryCreated == creates # opt.creates_at_call

\* the current optimize_repo call is over
CallEnded == opt.pc \in {"returned", "raised"}

(***************************************************************************)
(* C26. Confirmation guard: optimize_repo creates a history entry and runs *)
(* the lyraOptimize prompt only when apply and yes are true.  In dry-run   *)
(* mode no prompt runs; a plan call that is over has run the analysis      *)
(* prompt exactly once, the editing prompt never and has created no entry; *)
(* apply without yes does not return, has run the analysis once when it    *)
(* has raised and has created no entry; apply with plan is rejected before *)
(* anything runs.                                                          *)
(***************************************************************************)
C26_ConfirmationGuard ==
    /\ (EntryCreated \/ "lyraOptimize" \in Range(opt.prompts)) =>
           opt.apply /\ opt.yes
    /\ (~opt.apply /\ ~opt.plan) => opt.prompts = <<>> /\ ~EntryCreated
    /\ (~opt.apply /\ opt.plan) =>
           /\ ~EntryCreated
           /\ opt.prompts \in {<<>>, <<"lyraAnalyze">>}
           /\ CallEnded => opt.prompts = <<"lyraAnalyze">>
    /\ (opt.apply /\ ~opt.yes /\ ~opt.plan) =>
           /\ ~EntryCreated
           /\ opt.pc # "returned"
           /\ opt.prompts \in {<<>>, <<"lyraAnalyze">>}
           /\ CallEnded => opt.prompts = <<"lyraAnalyze">>
    /\ (opt.apply /\ opt.plan) =>
           /\ opt.pc = "raised"
           /\ opt.prompts = <<>>
           /\ opt.profiles = 0
           /\ ~EntryCreated

(***************************************************************************)
(* Claims about sequences of undo calls.                                   *)
(***************************************************************************)
\* the last call is an undo right after an undo of the same run id that
\* proceeded
SecondUndo ==
    /\ UndoCalled
    /\ last.prior.op = "undo_history"
    /\ last.prior.run_id = last.run_id
    /\ last.prior.outcome = "returned"

\* the modified paths an undo that proceeds writes from their backup copy
RestoredModified(dir) == Range(dir.changes.modified) \cap DOMAIN dir.backup

(***************************************************************************)
(* C28. Repeating undo changes nothing more: a second undo of the same run *)
(* id right after one that proceeded leaves every file as the first left   *)
(* it; without force it is refused as diverged whenever the first call     *)
(* restored a modified file; when it is not refused it returns, having     *)
(* rewritten the same backup bytes and found the added paths absent.       *)
(***************************************************************************)
C28_RepeatedUndo ==
    SecondUndo =>
        /\ fs = fsPre
        /\ (~last.force /\ RestoredModified(EntryPre) # {}) =>
               last.outcome = "RuntimeError"
        /\ last.outcome # "RuntimeError" =>
               /\ last.outcome = "returned"
               /\ \A p \in RestorablePaths(EntryPre) \cap DOMAIN EntryPre.backup :
                      p \in DOMAIN fsPre /\ fsPre[p] = EntryPre.backup[p]
               /\ \A p \in Range(EntryPre.changes.added) : p \notin DOMAIN fsPre

\* entry k was created and finalized, its records are complete and every
\* path it records as modified or deleted was backed up at its creation
BackedUpEntry(k) ==
    /\ snap[k].created /\ snap[k].finalized
    /\ ~Incomplete(hist[k])
    /\ RestorablePaths(hist[k]) \subseteq hist[k].meta.backed_up_files

\* the last two calls were undo(B) then undo(A), both without force, of
\* entries A then B created and finalized one after the other: B was
\* created on the repository as A's finalize recorded it, and undo(B) found
\* the repository as B's finalize recorded it
ReverseOrderUndo ==
    /\ UndoCalled /\ ~last.force
    /\ last.prior.op = "undo_history" /\ ~last.prior.force
    /\ last.prior.run_id \in RunIds
    /\ last.run_id < last.prior.run_id
    /\ BackedUpEntry(last.run_id)
    /\ BackedUpEntry(last.prior.run_id)
    /\ build_manifest(snap[last.prior.run_id].fs0, {}) = hist[last.run_id].after
    /\ last.prior.clean

\* the paths the two entries record as added
AddedByEither ==
    Range(hist[last.run_id].changes.added)
        \cup Range(hist[last.prior.run_id].changes.added)

(***************************************************************************)
(* C30 as stated. Undo in reverse creation order: undo(B) followed by      *)
(* undo(A), both without force, is never refused; afterwards every tracked *)
(* file has the content it had when A was created and every file added by  *)
(* either mutation is absent.                                              *)
(***************************************************************************)
C30_ReverseOrderUndo ==
    ReverseOrderUndo =>
        /\ last.prior.outcome = "returned"
        /\ last.outcome = "returned"
        /\ \A p \in Tracked : SameFile(snap[last.run_id].fs0, fs, p)
        /\ \A p \in AddedByEither : p \notin DOMAIN fs

(***************************************************************************)
(* C30 amended. Undo in reverse creation order: undo(B) followed by        *)
(* undo(A), both without force, is never refused; afterwards every tracked *)
(* file has the content it had when A was created and every file added by  *)
(* either mutation that was not in the repository when A was created is    *)
(* absent.                                                                 *)
(***************************************************************************)
C30_ReverseOrderUndoAmended ==
    ReverseOrderUndo =>
        /\ last.prior.outcome = "returned"
        /\ last.outcome = "returned"
        /\ \A p \in Tracked : SameFile(snap[last.run_id].fs0, fs, p)
        /\ \A p \in AddedByEither :
               p \notin DOMAIN snap[last.run_id].fs0 => p \notin DOMAIN fs

\* undo(B) then undo(A) where A modified a file and B added one: both
\* returned, the added file is gone and the modified one is as at A's
\* creation
C30_Witness ==
    /\ ReverseOrderUndo
    /\ last.outcome = "returned"
    /\ hist[last.run_id].changes.modified # <<>>
    /\ hist[last.prior.run_id].changes.added # <<>>
    /\ fs # fsPre
    /\ \A p \in Tracked : SameFile(snap[last.run_id].fs0, fs, p)
====
